---- MODULE Spec2Model ----
(***************************************************************************)
(* Mantle_Faucet (src/main.go): the POST /mantle/request handler           *)
(* handleWithdraw, run by gin once per request, each request in its own    *)
(* goroutine, over the package variables accounts (the cooldown ledger),   *)
(* integerDefault, privateKeyDefault and explorerUrlDefault, against one   *)
(* chain endpoint.  A request is a process r \in Reqs whose position in    *)
(* handleWithdraw is pc[r]; every statement that touches shared state, the *)
(* clock or the chain endpoint is one action.  The handler takes no lock:  *)
(* the actions of different requests interleave freely.  A read or write   *)
(* of the accounts map is one step.                                        *)
(*                                                                         *)
(* Scales.  Strings are sequences of one-character strings.  An address    *)
(* has AddressLength = 1 byte (go-ethereum: 20).  The clock counts ticks,  *)
(* Hour ticks to the hour (time.Hour is 3.6e12 ns).  Amounts are decimal   *)
(* numbers held in hundredths; Ether base units make one coin (the code    *)
(* multiplies by 1e18).                                                    *)
(***************************************************************************)
EXTENDS Integers, Sequences, FiniteSets, TLC

VARIABLES
    integerDefault,     \* var integerDefault int (config "interval", hours)
    privateKeyDefault,  \* var privateKeyDefault string (config "privateKey")
    accounts,           \* var accounts map[string]Account: address string -> LastWithdrawTime
    now,                \* the clock read by time.Now() / time.Since()
    ticks,              \* how many times the clock has advanced
    pendingNonce,       \* the endpoint's pending nonce of the operator account
    sent,               \* transactions handed to the endpoint by SendTransaction
    pc,                 \* pc[r]: position of request r in handleWithdraw
    req,                \* req[r]: the bound RequestBody
    loc,                \* loc[r]: handleWithdraw's locals (intAmount, nonce, signedTx)
    resp,               \* resp[r]: what the client of r receives
    stop,               \* stop[r]: the statement at which r's handler returned
    hist                \* hist[r]: what r has observed and done (history)

vars == <<integerDefault, privateKeyDefault, accounts, now, ticks, pendingNonce,
          sent, pc, req, loc, resp, stop, hist>>

----------------------------------------------------------------------------
(* Bounds and constants *)

NumReqs == 2
MaxTicks == 2

AddressLength == 1
Hour == 2
Ether == 10

Reqs == 1..NumReqs

Intervals == {1, 24}
PrivateKeys == {"key", "nokey"}
Balances == {1, 2}

explorerUrlDefault == <<"u", "/">>

\* Request addresses: two spellings that pass IsHexAddress ("0xab" and "AB"),
\* one of the wrong length ("0xa") and the empty string.
Addresses ==
    { <<"0", "x", "a", "b">>, <<"A", "B">>, <<"0", "x", "a">>, <<>> }

\* Request amounts.
Amounts == {"abc", "0.25", "-1"}

----------------------------------------------------------------------------
(* common.IsHexAddress / common.HexToAddress *)

HexDigits == {"0", "a", "b", "c", "d", "A", "B"}

isHexCharacter(c) == c \in HexDigits

has0xPrefix(s) == Len(s) >= 2 /\ s[1] = "0" /\ (s[2] = "x" \/ s[2] = "X")

StripPrefix(s) == IF has0xPrefix(s) THEN SubSeq(s, 3, Len(s)) ELSE s

isHex(s) == Len(s) % 2 = 0 /\ \A i \in 1..Len(s) : isHexCharacter(s[i])

\* IsHexAddress, had it not checked the length.
IsHexAddressAnyLength(s) == isHex(StripPrefix(s))

IsHexAddress(s) ==
    LET t == StripPrefix(s) IN Len(t) = 2 * AddressLength /\ isHex(t)

LowerChar(c) == CASE c = "A" -> "a" [] c = "B" -> "b" [] OTHER -> c

\* The account a valid address string names: its hex digits, prefix dropped,
\* case folded (the bytes the digits decode to).
HexToAddress(s) ==
    LET t == StripPrefix(s) IN [i \in 1..Len(t) |-> LowerChar(t[i])]

----------------------------------------------------------------------------
(* Amount normalisation: strconv.ParseFloat, * 1e18, big.Float.Int *)

\* ParseFloat, had it read text that is no number as zero.
ParseFloatLenient(s) ==
    CASE s = "0.25" -> [err |-> FALSE, val |-> 25]
      [] s = "-1"   -> [err |-> FALSE, val |-> -100]
      [] OTHER      -> [err |-> FALSE, val |-> 0]

\* ParseFloat: err, or the number in hundredths.
ParseFloat(s) ==
    CASE s = "0.25" -> [err |-> FALSE, val |-> 25]
      [] s = "-1"   -> [err |-> FALSE, val |-> -100]
      [] OTHER      -> [err |-> TRUE, val |-> 0]

\* big.Float.Int truncates toward zero; n is in hundredths of a base unit.
TruncInt(n) == IF n >= 0 THEN n \div 100 ELSE -((-n) \div 100)

IntAmount(val) == TruncInt(val * Ether)

----------------------------------------------------------------------------
(* Transactions *)

NoTx == [nil |-> TRUE, nonce |-> 0, to |-> <<>>, value |-> 0]

NewTx(nonce, to, value) == [nil |-> FALSE, nonce |-> nonce, to |-> to, value |-> value]

DigitStr(n) ==
    CASE n = 0 -> "0" [] n = 1 -> "1" [] n = 2 -> "2" [] n = 3 -> "3"
      [] n = 4 -> "4" [] n = 5 -> "5" [] n = 6 -> "6" [] n = 7 -> "7"
      [] n = 8 -> "8" [] OTHER -> "9"

IntStr(n) ==
    IF n < 0 THEN <<"-", DigitStr((-n) \div 10), DigitStr((-n) % 10)>>
    ELSE <<"+", DigitStr(n \div 10), DigitStr(n % 10)>>

\* signedTx.Hash().Hex(): a "0x" string fixed by the transaction's content.
HashHex(tx) ==
    <<"0", "x">> \o <<DigitStr(tx.nonce)>> \o tx.to \o IntStr(tx.value)

----------------------------------------------------------------------------
(* Responses *)

\* body: "none" (nothing written), "error" (ApiResponse) or "ok" (gin.H).
NoResp ==
    [status |-> 0, body |-> "none", success |-> FALSE, message |-> "",
     tx_id |-> <<>>, explorer_url |-> <<>>, writes |-> 0]

\* c.JSON(status, ApiResponse{Success: false, Message: message})
ApiResponse(status, message) ==
    [status |-> status, body |-> "error", success |-> FALSE, message |-> message,
     tx_id |-> <<>>, explorer_url |-> <<>>, writes |-> 1]

\* handleWithdraw returns without writing: net/http sends 200 and no body.
EmptyResponse ==
    [status |-> 200, body |-> "none", success |-> FALSE, message |-> "",
     tx_id |-> <<>>, explorer_url |-> <<>>, writes |-> 0]

\* handleWithdraw panics: gin.Default()'s Recovery sends 500 and no body.
PanicResponse ==
    [status |-> 500, body |-> "none", success |-> FALSE, message |-> "",
     tx_id |-> <<>>, explorer_url |-> <<>>, writes |-> 0]

\* c.JSON(http.StatusOK, gin.H{...})
OkResponse(tx) ==
    [status |-> 200, body |-> "ok", success |-> TRUE, message |-> "",
     tx_id |-> HashHex(tx), explorer_url |-> explorerUrlDefault \o HashHex(tx),
     writes |-> 1]

----------------------------------------------------------------------------
(* State *)

NoReq == [address |-> <<>>, amount |-> ""]

NoLoc == [intAmount |-> 0, nonce |-> 0, signedTx |-> NoTx]

\* after: the requests already answered with success when this one arrived;
\* balance: the value BalanceAt returned (NoBalance: none); calls: the
\* chain-facing steps executed, in order; recorded/recordedAt: the write
\* accounts[Address] = Account{...} and the time.Now() it stored.
NoBalance == -1

NoHist ==
    [after |-> {}, balance |-> NoBalance, calls |-> <<>>,
     recorded |-> FALSE, recordedAt |-> 0]

Init ==
    /\ integerDefault \in Intervals
    /\ privateKeyDefault \in PrivateKeys
    /\ accounts = <<>>
    /\ now = 0
    /\ ticks = 0
    /\ pendingNonce = 0
    /\ sent = {}
    /\ pc = [r \in Reqs |-> "idle"]
    /\ req = [r \in Reqs |-> NoReq]
    /\ loc = [r \in Reqs |-> NoLoc]
    /\ resp = [r \in Reqs |-> NoResp]
    /\ stop = [r \in Reqs |-> ""]
    /\ hist = [r \in Reqs |-> NoHist]

\* Exists, had the lookup never found a record.
ExistsNever(a) == FALSE

\* exists in "account_user, exists := accounts[Address]"
Exists(a) == a \in DOMAIN accounts

\* time.Duration(integerDefault) * time.Hour
Duration == integerDefault * Hour

\* time.Since(t)
Since(t) == now - t

\* return after c.JSON(...), or after nothing: the handler is over, its
\* locals are gone.
Finish(r, response) ==
    /\ resp' = [resp EXCEPT ![r] = response]
    /\ pc' = [pc EXCEPT ![r] = "done"]
    /\ stop' = [stop EXCEPT ![r] = pc[r]]
    /\ loc' = [loc EXCEPT ![r] = NoLoc]

Goto(r, label) == pc' = [pc EXCEPT ![r] = label] /\ UNCHANGED stop

Call(r, name) == [hist EXCEPT ![r].calls = Append(@, name)]

----------------------------------------------------------------------------
(* handleWithdraw, statement by statement *)

\* c.ShouldBindJSON(&req): a body that does not decode is answered 400 with
\* the decoder's error text; the fields of one that does are taken as sent
\* (the "banding" tags require nothing, so a missing field is the empty
\* string).  Requests are numbered in the order they arrive.
ShouldBindJSON(r) ==
    /\ pc[r] = "idle"
    /\ \A q \in Reqs : q < r => pc[q] # "idle"
    /\ hist' = [hist EXCEPT ![r].after = {q \in Reqs : resp[q].body = "ok"}]
    /\ \/ /\ Finish(r, ApiResponse(400, "bind error"))
          /\ UNCHANGED req
       \/ /\ \E a \in Addresses, m \in Amounts :
                req' = [req EXCEPT ![r] = [address |-> a, amount |-> m]]
          /\ Goto(r, "IsHexAddress")
          /\ UNCHANGED <<resp, loc>>
    /\ UNCHANGED <<integerDefault, privateKeyDefault, accounts, now, ticks,
                   pendingNonce, sent>>

\* if !common.IsHexAddress(Address) { 400 }
CheckAddress(r) ==
    /\ pc[r] = "IsHexAddress"
    /\ IF ~IsHexAddress(req[r].address)
       THEN /\ Finish(r, ApiResponse(400, "Please check and enter a valid wallet address."))
            /\ UNCHANGED hist
       ELSE /\ Goto(r, "cooldown")
            /\ UNCHANGED <<resp, loc, hist>>
    /\ UNCHANGED <<integerDefault, privateKeyDefault, accounts, now, ticks,
                   pendingNonce, sent, req>>

\* GateRejects, had the code compared with <= instead of <.
GateRejectsAtBoundary(exists, last) == exists /\ Since(last) <= Duration

\* The cooldown test on what the lookup returned.
GateRejects(exists, last) == exists /\ Since(last) < Duration

\* account_user, exists := accounts[Address]; if exists && time.Since(...) < duration { 403 }
CooldownGate(r) ==
    /\ pc[r] = "cooldown"
    /\ LET a == req[r].address
           exists == Exists(a)
           last == IF exists THEN accounts[a] ELSE 0
       IN IF GateRejects(exists, last)
          THEN Finish(r, ApiResponse(403, "You can only withdraw once every 24 hours."))
          ELSE /\ Goto(r, "ParseFloat")
               /\ UNCHANGED <<resp, loc>>
    /\ UNCHANGED <<integerDefault, privateKeyDefault, accounts, now, ticks,
                   pendingNonce, sent, req, hist>>

\* strconv.ParseFloat(req.Amount, 64): on error the handler prints and
\* returns, writing no response; else intAmount = trunc(amount * 1e18).
ParseAmount(r) ==
    /\ pc[r] = "ParseFloat"
    /\ LET f == ParseFloat(req[r].amount)
       IN IF f.err
          THEN Finish(r, EmptyResponse)
          ELSE /\ loc' = [loc EXCEPT ![r].intAmount = IntAmount(f.val)]
               /\ Goto(r, "DialContext")
               /\ UNCHANGED resp
    /\ UNCHANGED <<integerDefault, privateKeyDefault, accounts, now, ticks,
                   pendingNonce, sent, req, hist>>

\* ethclient.DialContext(ctx, "https://"+req.Network)
DialContext(r) ==
    /\ pc[r] = "DialContext"
    /\ hist' = Call(r, "DialContext")
    /\ \/ Finish(r, ApiResponse(500, "Failed to connect to Mantle client"))
       \/ /\ Goto(r, "HexToECDSA")
          /\ UNCHANGED <<resp, loc>>
    /\ UNCHANGED <<integerDefault, privateKeyDefault, accounts, now, ticks,
                   pendingNonce, sent, req>>

\* crypto.HexToECDSA(privateKeyDefault), then the operator address from the
\* public key (the !ok branch of the type assertion cannot be taken).
HexToECDSA(r) ==
    /\ pc[r] = "HexToECDSA"
    /\ IF privateKeyDefault # "key"
       THEN Finish(r, ApiResponse(500, "Failed to decode private key"))
       ELSE /\ Goto(r, "BalanceAt")
            /\ UNCHANGED <<resp, loc>>
    /\ UNCHANGED <<integerDefault, privateKeyDefault, accounts, now, ticks,
                   pendingNonce, sent, req, hist>>

\* Insufficient, had the comparison been off by one.
InsufficientOffByOne(balance, intAmount) == balance + 1 < intAmount

\* balance.Cmp(intAmount) == -1
Insufficient(balance, intAmount) == balance < intAmount

\* balance, _ := client.BalanceAt(...); if balance.Cmp(intAmount) == -1 { 400 }
\* The error is dropped.  A failed read hands back either the zero balance
\* the client decoded into, which is then compared, or nil, on which Cmp
\* panics.
BalanceAt(r) ==
    /\ pc[r] = "BalanceAt"
    /\ \/ \E b \in Balances :
            /\ hist' = [Call(r, "BalanceAt") EXCEPT ![r].balance = b]
            /\ IF Insufficient(b, loc[r].intAmount)
               THEN Finish(r, ApiResponse(400, "Insufficient balance"))
               ELSE /\ Goto(r, "PendingNonceAt")
                    /\ UNCHANGED <<resp, loc>>
       \/ /\ hist' = Call(r, "BalanceAt failed")
          /\ IF Insufficient(0, loc[r].intAmount)
             THEN Finish(r, ApiResponse(400, "Insufficient balance"))
             ELSE /\ Goto(r, "PendingNonceAt")
                  /\ UNCHANGED <<resp, loc>>
       \/ /\ hist' = Call(r, "BalanceAt failed")
          /\ Finish(r, PanicResponse)
    /\ UNCHANGED <<integerDefault, privateKeyDefault, accounts, now, ticks,
                   pendingNonce, sent, req>>

\* client.PendingNonceAt(ctx, fromAddress)
PendingNonceAt(r) ==
    /\ pc[r] = "PendingNonceAt"
    /\ hist' = Call(r, "PendingNonceAt")
    /\ \/ Finish(r, ApiResponse(500, "Failed to get nonce"))
       \/ /\ loc' = [loc EXCEPT ![r].nonce = pendingNonce]
          /\ Goto(r, "SuggestGasPrice")
          /\ UNCHANGED resp
    /\ UNCHANGED <<integerDefault, privateKeyDefault, accounts, now, ticks,
                   pendingNonce, sent, req>>

\* client.SuggestGasPrice(ctx)
SuggestGasPrice(r) ==
    /\ pc[r] = "SuggestGasPrice"
    /\ hist' = Call(r, "SuggestGasPrice")
    /\ \/ Finish(r, ApiResponse(500, "Failed to get gas price"))
       \/ /\ Goto(r, "SuggestGasTipCap")
          /\ UNCHANGED <<resp, loc>>
    /\ UNCHANGED <<integerDefault, privateKeyDefault, accounts, now, ticks,
                   pendingNonce, sent, req>>

\* client.SuggestGasTipCap(ctx)
SuggestGasTipCap(r) ==
    /\ pc[r] = "SuggestGasTipCap"
    /\ hist' = Call(r, "SuggestGasTipCap")
    /\ \/ Finish(r, ApiResponse(500, "Failed to get gas tip cap"))
       \/ /\ Goto(r, "NetworkID")
          /\ UNCHANGED <<resp, loc>>
    /\ UNCHANGED <<integerDefault, privateKeyDefault, accounts, now, ticks,
                   pendingNonce, sent, req>>

\* client.NetworkID(ctx)
NetworkID(r) ==
    /\ pc[r] = "NetworkID"
    /\ hist' = Call(r, "NetworkID")
    /\ \/ Finish(r, ApiResponse(500, "Failed to get network ID"))
       \/ /\ Goto(r, "EstimateGas")
          /\ UNCHANGED <<resp, loc>>
    /\ UNCHANGED <<integerDefault, privateKeyDefault, accounts, now, ticks,
                   pendingNonce, sent, req>>

\* toAddress := common.HexToAddress(Address); client.EstimateGas(ctx, msg)
EstimateGas(r) ==
    /\ pc[r] = "EstimateGas"
    /\ hist' = Call(r, "EstimateGas")
    /\ \/ Finish(r, ApiResponse(500, "Failed to estimate gas"))
       \/ /\ Goto(r, "SignTx")
          /\ UNCHANGED <<resp, loc>>
    /\ UNCHANGED <<integerDefault, privateKeyDefault, accounts, now, ticks,
                   pendingNonce, sent, req>>

\* tx := types.NewTx(&types.DynamicFeeTx{...});
\* signedTx, err := types.SignTx(tx, types.NewLondonSigner(chainID), privateKey)
\* err is overwritten by the next statement: a failed signing leaves
\* signedTx nil and the handler goes on.
SignTx(r) ==
    /\ pc[r] = "SignTx"
    /\ hist' = Call(r, "SignTx")
    /\ \/ loc' = [loc EXCEPT ![r].signedTx =
                     NewTx(loc[r].nonce, HexToAddress(req[r].address), loc[r].intAmount)]
       \/ loc' = [loc EXCEPT ![r].signedTx = NoTx]
    /\ Goto(r, "SendTransaction")
    /\ UNCHANGED <<integerDefault, privateKeyDefault, accounts, now, ticks,
                   pendingNonce, sent, req, resp>>

\* The endpoint's pending nonce once it has taken a transaction of nonce n.
NonceAfter(n) == IF n >= pendingNonce THEN n + 1 ELSE pendingNonce

\* SendTransaction, had a refused broadcast been tried again.
SendTransactionRetry(r) ==
    /\ pc[r] = "SendTransaction"
    /\ LET tx == loc[r].signedTx
       IN IF tx.nil
          THEN /\ hist' = Call(r, "SendTransaction(nil)")
               /\ Finish(r, PanicResponse)
               /\ UNCHANGED <<sent, pendingNonce>>
          ELSE /\ hist' = Call(r, "SendTransaction")
               /\ \/ /\ sent' = sent \cup {[by |-> r, tx |-> tx, ok |-> FALSE]}
                     /\ Goto(r, "SendTransaction")
                     /\ UNCHANGED <<pendingNonce, resp, loc>>
                  \/ /\ sent' = sent \cup {[by |-> r, tx |-> tx, ok |-> TRUE]}
                     /\ pendingNonce' = NonceAfter(tx.nonce)
                     /\ Goto(r, "record")
                     /\ UNCHANGED <<resp, loc>>
    /\ UNCHANGED <<integerDefault, privateKeyDefault, accounts, now, ticks, req>>

\* err = client.SendTransaction(ctx, signedTx); if err != nil { 500 }
\* A nil signedTx panics in the client before anything is sent.  A
\* transaction is handed to the endpoint, which takes it (advancing the
\* pending nonce) or refuses it.
SendTransaction(r) ==
    /\ pc[r] = "SendTransaction"
    /\ LET tx == loc[r].signedTx
       IN IF tx.nil
          THEN /\ hist' = Call(r, "SendTransaction(nil)")
               /\ Finish(r, PanicResponse)
               /\ UNCHANGED <<sent, pendingNonce>>
          ELSE /\ hist' = Call(r, "SendTransaction")
               /\ \/ /\ sent' = sent \cup {[by |-> r, tx |-> tx, ok |-> FALSE]}
                     /\ Finish(r, ApiResponse(500, "Deal failed"))
                     /\ UNCHANGED pendingNonce
                  \/ /\ sent' = sent \cup {[by |-> r, tx |-> tx, ok |-> TRUE]}
                     /\ pendingNonce' = NonceAfter(tx.nonce)
                     /\ Goto(r, "record")
                     /\ UNCHANGED <<resp, loc>>
    /\ UNCHANGED <<integerDefault, privateKeyDefault, accounts, now, ticks, req>>

\* Put, had the write replaced the map instead of one entry.
PutAlone(k, t) == [a \in {k} |-> t]

\* accounts[k] = Account{Address: k, LastWithdrawTime: t}
Put(k, t) == [a \in DOMAIN accounts \cup {k} |-> IF a = k THEN t ELSE accounts[a]]

\* accounts[Address] = Account{Address: Address, LastWithdrawTime: time.Now()}
Record(r) ==
    /\ pc[r] = "record"
    /\ accounts' = Put(req[r].address, now)
    /\ hist' = [hist EXCEPT ![r].recorded = TRUE, ![r].recordedAt = now]
    /\ Goto(r, "respond")
    /\ UNCHANGED <<integerDefault, privateKeyDefault, now, ticks, pendingNonce,
                   sent, req, loc, resp>>

\* c.JSON(http.StatusOK, gin.H{"success": true, "tx_id": ..., "explorer_url": ...})
RespondOK(r) ==
    /\ pc[r] = "respond"
    /\ Finish(r, OkResponse(loc[r].signedTx))
    /\ UNCHANGED <<integerDefault, privateKeyDefault, accounts, now, ticks,
                   pendingNonce, sent, req, hist>>

\* Time passes: by one tick, or by one tick less than the cooldown.
Tick ==
    /\ ticks < MaxTicks
    /\ \E k \in {1, Duration - 1} :
          /\ k > 0
          /\ now' = now + k
    /\ ticks' = ticks + 1
    /\ UNCHANGED <<integerDefault, privateKeyDefault, accounts, pendingNonce,
                   sent, pc, req, loc, resp, stop, hist>>

Step(r) ==
    \/ ShouldBindJSON(r)
    \/ CheckAddress(r)
    \/ CooldownGate(r)
    \/ ParseAmount(r)
    \/ DialContext(r)
    \/ HexToECDSA(r)
    \/ BalanceAt(r)
    \/ PendingNonceAt(r)
    \/ SuggestGasPrice(r)
    \/ SuggestGasTipCap(r)
    \/ NetworkID(r)
    \/ EstimateGas(r)
    \/ SignTx(r)
    \/ SendTransaction(r)
    \/ Record(r)
    \/ RespondOK(r)

Next == Tick \/ \E r \in Reqs : Step(r)

Spec == Init /\ [][Next]_vars

----------------------------------------------------------------------------
(* Properties *)

\* r's body was bound: r holds a request.
Bound(r) == pc[r] # "idle" /\ stop[r] # "idle"

Succeeded(r) == pc[r] = "done" /\ resp[r].body = "ok"

Failed(r) == pc[r] = "done" /\ resp[r].body # "ok"

\* r and q were in their handlers at the same time.
Concurrent(r, q) == r # q /\ r \notin hist[q].after /\ q \notin hist[r].after

\* IsEligible(address, cooldownDuration, now) of the cooldown ledger.
IsEligible(a, d, t) == a \notin DOMAIN accounts \/ t - accounts[a] >= d

\* The addresses of the model that are well-formed account identifiers, and
\* the amounts that are decimal numbers.
ValidAccountIds == { <<"0", "x", "a", "b">>, <<"A", "B">> }

DecimalAmounts == {"0.25", "-1"}

NetworkSteps ==
    {"DialContext", "BalanceAt", "BalanceAt failed", "PendingNonceAt",
     "SuggestGasPrice", "SuggestGasTipCap", "NetworkID", "EstimateGas",
     "SignTx", "SendTransaction", "SendTransaction(nil)"}

Called(r, name) == \E i \in 1..Len(hist[r].calls) : hist[r].calls[i] = name

NoNetworkStep(r) == \A i \in 1..Len(hist[r].calls) : hist[r].calls[i] \notin NetworkSteps

\* C1: two requests for the same address handled concurrently never both
\* succeed within one cooldown window of each other: at most one of them
\* broadcasts a transaction and is answered 200.
C1_NoDoubleSuccess ==
    \A r, q \in Reqs :
        ( /\ Concurrent(r, q)
          /\ req[r].address = req[q].address
          /\ Succeeded(r)
          /\ hist[q].recorded
          /\ hist[q].recordedAt - hist[r].recordedAt < Duration
          /\ hist[r].recordedAt - hist[q].recordedAt < Duration )
        => ~Succeeded(q)

\* C2: a request passes the cooldown gate if and only if its address has no
\* ledger record or the time since the recorded withdrawal is at least the
\* cooldown duration; a request that does not pass is answered 403.
C2_GateIsEligibility ==
    [][ \A r \in Reqs :
          (pc[r] = "cooldown" /\ pc'[r] # "cooldown") =>
             IF IsEligible(req[r].address, integerDefault * Hour, now)
             THEN pc'[r] = "ParseFloat"
             ELSE pc'[r] = "done" /\ resp'[r].status = 403 ]_vars

\* A request that arrived after a withdrawal for its address was answered
\* has passed the gate, and the time since that withdrawal is exactly the
\* cooldown duration.
C2_Witness ==
    \E r, q \in Reqs :
        /\ q \in hist[r].after
        /\ req[r].address = req[q].address
        /\ pc[r] = "ParseFloat"
        /\ req[r].address \in DOMAIN accounts
        /\ now - accounts[req[r].address] = Duration

\* C3: once a withdrawal for an address has succeeded, a request for the same
\* address that arrives afterwards and is checked within the cooldown window
\* is answered 403, has executed no chain step (nothing signed, nothing
\* broadcast) and does not write the ledger.
C3_RetryWithinWindowRejected ==
    [][ \A r \in Reqs : \A q \in hist[r].after :
          ( /\ req[r].address = req[q].address
            /\ pc[r] = "cooldown" /\ pc'[r] # "cooldown"
            /\ now - hist[q].recordedAt < Duration )
          => /\ pc'[r] = "done"
             /\ resp'[r].status = 403
             /\ ~resp'[r].success
             /\ hist'[r].calls = <<>>
             /\ ~hist'[r].recorded
             /\ accounts' = accounts
             /\ sent' = sent ]_vars

C3_Witness ==
    \E r \in Reqs : \E q \in hist[r].after :
        /\ req[r].address = req[q].address
        /\ pc[r] = "done"
        /\ resp[r].status = 403
        /\ now - hist[q].recordedAt < Duration
        /\ accounts[req[q].address] = hist[q].recordedAt

\* C4: the ledger changes only in the step that follows a request's accepted
\* broadcast, and then only in the entry of that request's address; a request
\* that ends without success has never written it.
C4_LedgerFrame ==
    [][ /\ \A r \in Reqs :
             (pc'[r] = "done" /\ resp'[r].body # "ok") => ~hist'[r].recorded
        /\ accounts' # accounts =>
             \E r \in Reqs :
                /\ pc[r] = "record"
                /\ \E t \in sent : t.by = r /\ t.ok
                /\ DOMAIN accounts' = DOMAIN accounts \cup {req[r].address}
                /\ \A a \in DOMAIN accounts :
                      a # req[r].address => accounts'[a] = accounts[a] ]_vars

\* One request has succeeded and another, for a different address, has had
\* its broadcast refused: the ledger holds the first address and not the second.
C4_Witness ==
    \E r, q \in Reqs :
        /\ Succeeded(r)
        /\ Failed(q) /\ resp[q].message = "Deal failed"
        /\ req[q].address # req[r].address
        /\ req[r].address \in DOMAIN accounts
        /\ req[q].address \notin DOMAIN accounts

\* The integer amount a bound request asks for.
RequestedAmount(r) == TruncInt(ParseFloat(req[r].amount).val * Ether)

\* C5: a request whose balance read returned less than the requested integer
\* amount is answered 400 "Insufficient balance" and has neither signed nor
\* submitted a transaction.
C5_InsufficientBalanceRejected ==
    \A r \in Reqs :
        (hist[r].balance # NoBalance /\ hist[r].balance < RequestedAmount(r))
        => /\ pc[r] = "done"
           /\ resp[r].status = 400
           /\ resp[r].body = "error" /\ ~resp[r].success
           /\ resp[r].message = "Insufficient balance"
           /\ ~Called(r, "SignTx")
           /\ ~Called(r, "SendTransaction")
           /\ \A t \in sent : t.by # r

C5_Witness ==
    \E r \in Reqs :
        /\ hist[r].balance # NoBalance
        /\ hist[r].balance < RequestedAmount(r)
        /\ resp[r].message = "Insufficient balance"

\* C6: a success response is sent only after this request's broadcast was
\* accepted; it is 200 with success = true, tx_id the hash of that
\* transaction, explorer_url the base URL followed by tx_id; and at the moment
\* it is sent the ledger holds, for the request's address, the time this
\* request recorded.
C6_SuccessResponse ==
    [][ \A r \in Reqs :
          (resp'[r].body = "ok" /\ resp[r].body # "ok") =>
             /\ resp'[r].status = 200
             /\ resp'[r].success
             /\ resp'[r].tx_id # <<>>
             /\ \E t \in sent : t.by = r /\ t.ok /\ resp'[r].tx_id = HashHex(t.tx)
             /\ resp'[r].explorer_url = explorerUrlDefault \o resp'[r].tx_id
             /\ hist[r].recorded
             /\ req[r].address \in DOMAIN accounts
             /\ accounts[req[r].address] = hist[r].recordedAt ]_vars

\* C7: no two requests hand the endpoint transactions with the same nonce.
C7_DistinctNonces ==
    \A t, u \in sent : t.by # u.by => t.tx.nonce # u.tx.nonce

\* The stage a failed request failed in: the statement it returned from.
Stage(r) == stop[r]

\* C8: every request that ends without success has written exactly one
\* response with success = false and a non-empty message, and requests that
\* fail in different stages get different messages.
C8_EveryFailureHasMessage ==
    /\ \A r \in Reqs :
          Failed(r) => /\ resp[r].writes = 1
                       /\ resp[r].body = "error"
                       /\ ~resp[r].success
                       /\ resp[r].message # ""
    /\ \A r, q \in Reqs :
          (Failed(r) /\ Failed(q) /\ Stage(r) # Stage(q))
          => resp[r].message # resp[q].message

\* C9: a request whose address is no well-formed account identifier goes no
\* further than the address check: it is answered 400, no chain step is
\* executed for it, and it neither reads nor writes the ledger.
C9_InvalidAddressRejectedFirst ==
    \A r \in Reqs :
        (Bound(r) /\ req[r].address \notin ValidAccountIds)
        => /\ pc[r] \in {"IsHexAddress", "done"}
           /\ hist[r].calls = <<>>
           /\ ~hist[r].recorded
           /\ \A t \in sent : t.by # r
           /\ pc[r] = "done" =>
                 /\ stop[r] = "IsHexAddress"
                 /\ resp[r].status = 400
                 /\ resp[r].body = "error" /\ ~resp[r].success

C9_Witness ==
    \E r \in Reqs :
        /\ Bound(r)
        /\ req[r].address = <<"0", "x", "a">>
        /\ pc[r] = "done"
        /\ resp[r].status = 400

\* C10: a request whose amount is no decimal number goes no further than the
\* amount parse: no chain step is executed for it, it never gets a success
\* response and it never writes the ledger.
C10_BadAmountStopsBeforeNetwork ==
    \A r \in Reqs :
        (Bound(r) /\ req[r].amount \notin DecimalAmounts)
        => /\ pc[r] \in {"IsHexAddress", "cooldown", "ParseFloat", "done"}
           /\ NoNetworkStep(r)
           /\ hist[r].calls = <<>>
           /\ ~hist[r].recorded
           /\ resp[r].body # "ok" /\ ~resp[r].success
           /\ \A t \in sent : t.by # r

C10_Witness ==
    \E r \in Reqs :
        /\ Bound(r)
        /\ req[r].amount = "abc"
        /\ pc[r] = "done"
        /\ stop[r] = "ParseFloat"

\* The status the interface gives a request that failed in a stage:
\* validation 400, cooldown 403, insufficient balance 400, anything else 500.
ExpectedStatus(r) ==
    CASE Stage(r) \in {"idle", "IsHexAddress", "ParseFloat"} -> 400
      [] Stage(r) = "cooldown" -> 403
      [] Stage(r) = "BalanceAt" /\ ~Called(r, "BalanceAt failed") -> 400
      [] OTHER -> 500

\* C11: the status of every response to a failed request is the one its
\* failure kind has (validation 400, cooldown 403, insufficient balance 400,
\* connectivity, key, nonce, fee, chain id, estimation, broadcast 500), and
\* is never 200.
C11_StatusByFailureKind ==
    \A r \in Reqs :
        Failed(r) => resp[r].status = ExpectedStatus(r) /\ resp[r].status # 200

\* The cooldown message for an interval of h hours.
IntervalMessage(h) ==
    CASE h = 1 -> "You can only withdraw once every 1 hours."
      [] h = 24 -> "You can only withdraw once every 24 hours."
      [] OTHER -> "You can only withdraw once every ? hours."

\* C12: a request turned away by the cooldown gate gets the message that
\* names the configured interval, the one the gate enforced.
C12_MessageNamesInterval ==
    \A r \in Reqs :
        (Failed(r) /\ Stage(r) = "cooldown")
        => resp[r].message = IntervalMessage(integerDefault)

\* The chain-facing steps of the pipeline, in order.
PipelineOrder ==
    <<"DialContext", "BalanceAt", "PendingNonceAt", "SuggestGasPrice",
      "SuggestGasTipCap", "NetworkID", "EstimateGas", "SignTx", "SendTransaction">>

\* The step a call stands for, and whether the call failed in a way the
\* log shows (a failed balance read; a send of the nil transaction a failed
\* signing left).
StepOf(name) ==
    CASE name = "BalanceAt failed" -> "BalanceAt"
      [] name = "SendTransaction(nil)" -> "SendTransaction"
      [] OTHER -> name

\* C13: the steps of a request run in pipeline order, no step runs after one
\* that failed, and a transaction is handed to the endpoint only after every
\* earlier step, signing included, succeeded.
C13_SequentialAborting ==
    \A r \in Reqs :
        LET c == hist[r].calls
        IN /\ Len(c) <= Len(PipelineOrder)
           /\ \A i \in 1..Len(c) : StepOf(c[i]) = PipelineOrder[i]
           /\ \A i \in 1..Len(c) : c[i] = "BalanceAt failed" => i = Len(c)
           /\ ~Called(r, "SendTransaction(nil)")
           /\ (\E t \in sent : t.by = r) =>
                 /\ c = PipelineOrder
                 /\ ~(\E t \in sent : t.by = r /\ t.tx.nil)

\* How many times a request has called SendTransaction.
SendCount(h) ==
    Cardinality({i \in 1..Len(h.calls) :
                    h.calls[i] \in {"SendTransaction", "SendTransaction(nil)"}})

\* C14: a request calls SendTransaction at most once and hands the endpoint
\* at most one transaction; the step in which a broadcast is refused ends the
\* request, drops the signed transaction and leaves the ledger and the
\* pending nonce as they were; a request that has returned makes no further
\* call.
C14_NoRetry ==
    [][ \A r \in Reqs :
          /\ SendCount(hist'[r]) <= 1
          /\ Cardinality({t \in sent' : t.by = r}) <= 1
          /\ (pc[r] = "SendTransaction" /\ resp'[r].message = "Deal failed") =>
                /\ pc'[r] = "done"
                /\ loc'[r] = NoLoc
                /\ accounts' = accounts
                /\ pendingNonce' = pendingNonce
                /\ ~hist'[r].recorded
          /\ pc[r] = "done" =>
                /\ pc'[r] = "done"
                /\ hist'[r] = hist[r]
                /\ resp'[r] = resp[r] ]_vars

\* A request's broadcast was refused: it is over, the endpoint saw its one
\* transaction, and the ledger has no entry for its address.
C14_Witness ==
    \E r \in Reqs :
        /\ pc[r] = "done"
        /\ resp[r].message = "Deal failed"
        /\ \E t \in sent : t.by = r /\ ~t.ok
        /\ req[r].address \notin DOMAIN accounts

\* C15: a request whose balance read failed stops there with a failure
\* response: no later step runs and no transaction is signed or submitted.
C15_FailedBalanceReadAborts ==
    \A r \in Reqs :
        Called(r, "BalanceAt failed")
        => /\ pc[r] = "done"
           /\ ~resp[r].success
           /\ resp[r].status >= 400
           /\ hist[r].calls[Len(hist[r].calls)] = "BalanceAt failed"
           /\ ~Called(r, "SignTx")
           /\ \A t \in sent : t.by # r

\* C16: a request whose integer amount is negative never reaches gas
\* estimation, signing or broadcast, and every transaction handed to the
\* endpoint carries a value between 0 and the balance its request read.
C16_ValueWithinBalance ==
    /\ \A r \in Reqs :
          (Bound(r) /\ RequestedAmount(r) < 0)
          => /\ ~Called(r, "EstimateGas")
             /\ ~Called(r, "SignTx")
             /\ ~Called(r, "SendTransaction")
    /\ \A t \in sent :
          /\ 0 <= t.tx.value
          /\ hist[t.by].balance # NoBalance
          /\ t.tx.value <= hist[t.by].balance

\* The account a request's transaction pays.
Recipient(r) == HexToAddress(req[r].address)

\* C17: of two withdrawals to one account, the second made by a request that
\* arrived after the first was answered, the second is recorded at least the
\* cooldown duration after the first, however the two requests spell the
\* address.
C17_CooldownPerAccount ==
    \A r \in Reqs : \A q \in hist[r].after :
        (hist[r].recorded /\ Recipient(r) = Recipient(q))
        => hist[r].recordedAt - hist[q].recordedAt >= Duration

\* The next statement of r reads the accounts map / writes it.
MapRead(r) == pc[r] = "cooldown"

MapWrite(r) == pc[r] = "record"

\* C18: no handler is about to write the accounts map while another is about
\* to read or write it: with no lock in the handler, two such accesses are
\* unordered.
C18_MapAccessExclusive ==
    \A r, q \in Reqs :
        (r # q /\ MapWrite(r)) => ~(MapRead(q) \/ MapWrite(q))

====
